---- MODULE Spec2Model ----
(***************************************************************************)
(* Model of the NXO audio worklet processor (NXOProcessor): the voice set  *)
(* driven by noteOn/noteOff messages, the note garbage collector with its  *)
(* sample-counted debounce, and the ring-buffer generation scheduler       *)
(* driven by process(); and of what the processor is built on: the         *)
(* normalization of an NXO definition (normalizeNXODef) and the envelope   *)
(* tables, their interpolators and the per-harmonic computer               *)
(* (buildADSREngine, buildNXOComputer).                                    *)
(*                                                                         *)
(* Sizes are scaled down so that the state space is finite and small; the  *)
(* relations between them are those of the source (RECOMPUTE_AFTER is half *)
(* of BUFFER_SIZE, RING_BUFFER_SIZE = BUFFER_SIZE * 2, host blocks are     *)
(* shorter than RECOMPUTE_AFTER).                                          *)
(*                                                                         *)
(* Time in seconds is kept in ticks, TicksPerSecond ticks to the second,   *)
(* so that n / sampleRate is exact; the rounding of JavaScript doubles is  *)
(* not modelled.                                                           *)
(*                                                                         *)
(* A sample value is abstracted to the render-clock phase it was computed  *)
(* for: generateMoreSamples() computes entry i of its block for note time  *)
(* samplesSinceNoteOn + i of every note, that is for the render clock      *)
(* i samples after the call.  <<>> is the 0 the buffers are filled with at *)
(* construction, <<t>> a sample computed for clock phase t (the clock is   *)
(* the number of samples consumed so far, modulo RING_BUFFER_SIZE); NaN is *)
(* a sample to which a note contributed an envelope value that is not      *)
(* finite.                                                                 *)
(*                                                                         *)
(* Beside the processor the module holds the output conditioner            *)
(* (StereoAntiPopFilter), the page's Recorder component and the set of     *)
(* keys a client holds down.                                               *)
(***************************************************************************)
EXTENDS Integers, Sequences, FiniteSets, TLC

\* ---------------------------------------------------------------- sizes
MAX_VOICES == 2
RECOMPUTE_AFTER == 4
BUFFER_SIZE == 8
RING_BUFFER_SIZE == BUFFER_SIZE * 2

\* samples per second (global of the audio worklet scope)
sampleRate == 2
TicksPerSecond == 2 * sampleRate
\* computeReleasedNoteExpirationTime(exampleNXODef), in ticks (1.5 s)
releaseNoteExpirationTime == 6
\* the samplesPerTableEntry the processor builds its computer with
SAMPLES_PER_TABLE_ENTRY == 2

\* bounds of the model
MaxBlock == 2        \* longest host block
Quantum == 1         \* block length of a host with a fixed render quantum
MaxSamples == 6      \* cap on samplesSinceNoteOn
MaxLog == 4          \* cap on the number of logged note-ons
MaxHarmonic == 2     \* highest harmonic of a definition
MaxPasses == 2       \* cap on the number of normalizeNXODef calls in a row
MaxTableStep == 3    \* largest samplesPerTableEntry of an envelope table
MaxTime == 8         \* latest time an envelope is asked for, in ticks
MaxChunk == 2        \* largest size of a chunk of recorded data, in bytes
MaxLimit == 4        \* largest memoryLimitBytes of a Recorder

Keys == {60, 62, 64}
\* keys of the note-on-only runs: enough for two evictions
CapKeys == Keys \cup {65}
\* note-ons that carry an explicit velocity
Velocities == {100}
VelocityKeys == {60}
\* the key played under a host whose block length varies
SoloKeys == {62}
BlockLengths == 1..MaxBlock

VARIABLES
  notes,                     \* this.notes: Map in insertion order, as a sequence of records
  ringBufferLeft,            \* this.ringBufferLeft
  ringBufferRight,           \* this.ringBufferRight
  playhead,                  \* this.playhead
  generationHead,            \* this.generationHead
  samplesSinceLastCompute,   \* this.samplesSinceLastCompute
  pendingGCDebounce,         \* this.pendingGCDebounce
  samplesSinceLastGCCounter, \* this.samplesSinceLastGCCounter
  outputL,                   \* outputs[0][0] as left by the last process() call
  outputR,                   \* outputs[0][1] as left by the last process() call
  thrown,                    \* error thrown by the last handler, "" if none
  noteOnLog,                 \* history: keys of the note-ons handled so far (logged runs only)
  nxoDef,                    \* the NXO definition a preset hands to normalizeNXODef
  normalized,                \* what successive normalizeNXODef calls returned, oldest first
  adsr,                      \* an envelope engine of buildNXOComputer, with what its closures capture
  probe,                     \* the last call made on the engine, and what it returned
  keysDown,                  \* the keys a client holds down
  recorder,                  \* the Recorder component: its state, refs and MediaRecorder
  antiPopFilter              \* a StereoAntiPopFilter, with what its last process() returned

vars == <<notes, ringBufferLeft, ringBufferRight, playhead, generationHead,
          samplesSinceLastCompute, pendingGCDebounce, samplesSinceLastGCCounter,
          outputL, outputR, thrown, noteOnLog, nxoDef, normalized, adsr, probe,
          keysDown, recorder, antiPopFilter>>

\* the state of the preset module, which the processor never writes
preset == <<nxoDef, normalized>>

\* the state of the envelope computer, fixed once it is built
computer == <<adsr, probe>>

\* the state outside the processor and what it is built on
others == <<keysDown, recorder, antiPopFilter>>

engine == <<notes, ringBufferLeft, ringBufferRight, playhead, generationHead,
            samplesSinceLastCompute, pendingGCDebounce, samplesSinceLastGCCounter>>

\* ------------------------------------------------------------ arithmetic
\* JavaScript %: the remainder has the sign of the dividend
JsRem(n, m) == IF n >= 0 THEN n % m ELSE 0 - ((0 - n) % m)

trueMod(n, m) == JsRem(JsRem(n, m) + m, m)

\* Math.ceil(a / b) for a >= 0, b > 0
CeilDiv(a, b) == (a + b - 1) \div b

\* n / sampleRate, in ticks
SamplesToTime(n) == (n * TicksPerSecond) \div sampleRate

\* variant: the debounce lasts half the expiration time
GC_DEBOUNCE_SAMPLES_Half ==
  CeilDiv(releaseNoteExpirationTime * sampleRate, 2 * TicksPerSecond)

\* Math.ceil(releaseNoteExpirationTime * 1.5 * sampleRate)
GC_DEBOUNCE_SAMPLES ==
  CeilDiv(releaseNoteExpirationTime * 3 * sampleRate, 2 * TicksPerSecond)

\* ------------------------------------------------------------- the Map
RECURSIVE FindFrom(_, _, _)
FindFrom(ns, id, i) ==
  IF i > Len(ns) THEN 0
  ELSE IF ns[i].id = id THEN i
  ELSE FindFrom(ns, id, i + 1)

\* position of key id in the map, 0 when absent
IndexOf(ns, id) == FindFrom(ns, id, 1)

MapHas(ns, id) == IndexOf(ns, id) # 0

MapGet(ns, id) == ns[IndexOf(ns, id)]

RemoveAt(ns, i) == SubSeq(ns, 1, i - 1) \o SubSeq(ns, i + 1, Len(ns))

MapDelete(ns, id) == IF MapHas(ns, id) THEN RemoveAt(ns, IndexOf(ns, id)) ELSE ns

\* Map.set: an existing key keeps its place, a new key goes last
MapSet(ns, rec) ==
  IF MapHas(ns, rec.id)
    THEN [ns EXCEPT ![IndexOf(ns, rec.id)] = rec]
    ELSE Append(ns, rec)

MapKeys(ns) == {ns[i].id : i \in 1..Len(ns)}

\* ------------------------------------------------- garbage collection
\* noteData.samplesSinceNoteOn / sampleRate - noteData.totalTimeNoteWasOn
TimeSinceOff(n) == SamplesToTime(n.samplesSinceNoteOn) - n.totalTimeNoteWasOn

\* variant: collects a released note already at the expiration time (>= for >)
Collectable_AtExpiry(n) == (~n.on) /\ TimeSinceOff(n) >= releaseNoteExpirationTime

\* the two nested conditions under which the sweep deletes an entry
Collectable(n) == (~n.on) /\ TimeSinceOff(n) > releaseNoteExpirationTime

\* the for-of loop over the map, deleting while iterating
RECURSIVE GCFrom(_, _)
GCFrom(ns, i) ==
  IF i > Len(ns) THEN ns
  ELSE IF Collectable(ns[i]) THEN GCFrom(RemoveAt(ns, i), i)
  ELSE GCFrom(ns, i + 1)

runNoteGarbageCollection(ns) == GCFrom(ns, 1)

\* ------------------------------------------------- polyphony eviction
\* variant: a later note with an equal counter replaces the candidate (>= for >)
ExceedsMax_OrEqual(n, maxSamples) ==
  maxSamples = <<>> \/ n.samplesSinceNoteOn >= maxSamples[1]

\* variant: the scan keeps the smallest counter (< for >)
ExceedsMax_Youngest(n, maxSamples) ==
  maxSamples = <<>> \/ n.samplesSinceNoteOn < maxSamples[1]

\* data.samplesSinceNoteOn > maxSamples, maxSamples = <<>> standing for -Infinity
ExceedsMax(n, maxSamples) ==
  maxSamples = <<>> \/ n.samplesSinceNoteOn > maxSamples[1]

\* the loop that finds the note that has been running the longest;
\* oldest = <<>> stands for null
RECURSIVE ScanOldest(_, _, _, _)
ScanOldest(ns, i, maxSamples, oldest) ==
  IF i > Len(ns) THEN oldest
  ELSE IF ExceedsMax(ns[i], maxSamples)
    THEN ScanOldest(ns, i + 1, <<ns[i].samplesSinceNoteOn>>, <<ns[i].id>>)
    ELSE ScanOldest(ns, i + 1, maxSamples, oldest)

OldestNoteId(ns) == ScanOldest(ns, 1, <<>>, <<>>)

\* variant: the oldest note is evicted only above MAX_VOICES (> for >=)
EnforcePolyphony_Late(ns) ==
  IF Len(ns) > MAX_VOICES
    THEN LET oldestNoteId == OldestNoteId(ns)
         IN  IF oldestNoteId # <<>> THEN MapDelete(ns, oldestNoteId[1]) ELSE ns
    ELSE ns

\* if (this.notes.size >= MAX_VOICES) { ... this.notes.delete(oldestNoteId) }
EnforcePolyphony(ns) ==
  IF Len(ns) >= MAX_VOICES
    THEN LET oldestNoteId == OldestNoteId(ns)
         IN  IF oldestNoteId # <<>> THEN MapDelete(ns, oldestNoteId[1]) ELSE ns
    ELSE ns

\* ---------------------------------------------------------- messages
\* const { type, note, velocity = 127 } = event.data
VelocityOf(data) == IF "velocity" \in DOMAIN data THEN data.velocity ELSE 127

NewNote(note, velocity) ==
  [id |-> note, velocity |-> velocity, samplesSinceNoteOn |-> 0, on |-> TRUE]

\* variant: the counter is stored without the division by sampleRate
Released_InSamples(nd) ==
  [id |-> nd.id, velocity |-> nd.velocity,
   samplesSinceNoteOn |-> nd.samplesSinceNoteOn, on |-> FALSE,
   totalTimeNoteWasOn |-> nd.samplesSinceNoteOn]

\* nd.on = false; nd.totalTimeNoteWasOn = nd.samplesSinceNoteOn / sampleRate
Released(nd) ==
  [id |-> nd.id, velocity |-> nd.velocity,
   samplesSinceNoteOn |-> nd.samplesSinceNoteOn, on |-> FALSE,
   totalTimeNoteWasOn |-> SamplesToTime(nd.samplesSinceNoteOn)]

NoteOnMessagesFor(keys) ==
  {[type |-> "noteOn", note |-> k] : k \in keys}
    \cup {[type |-> "noteOn", note |-> k, velocity |-> v] :
             k \in keys \cap VelocityKeys, v \in Velocities}

NoteOnMessages == NoteOnMessagesFor(Keys)

NoteOffMessages == {[type |-> "noteOff", note |-> k] : k \in Keys}

\* variant: the polyphony check comes before the sweep
HandleNoteOn_EvictsFirst(data) ==
  /\ data.type = "noteOn"
  /\ notes' = MapSet(runNoteGarbageCollection(EnforcePolyphony(notes)),
                     NewNote(data.note, VelocityOf(data)))
  /\ thrown' = ""
  /\ UNCHANGED <<ringBufferLeft, ringBufferRight, playhead, generationHead,
                 samplesSinceLastCompute, pendingGCDebounce,
                 samplesSinceLastGCCounter, outputL, outputR>>

\* variant: a note-on makes the next process() call generate anew
HandleNoteOn_ForcesRecompute(data) ==
  /\ data.type = "noteOn"
  /\ notes' = MapSet(EnforcePolyphony(runNoteGarbageCollection(notes)),
                     NewNote(data.note, VelocityOf(data)))
  /\ samplesSinceLastCompute' = RECOMPUTE_AFTER
  /\ thrown' = ""
  /\ UNCHANGED <<ringBufferLeft, ringBufferRight, playhead, generationHead,
                 pendingGCDebounce, samplesSinceLastGCCounter, outputL, outputR>>

\* the noteOn branch of port.onmessage
HandleNoteOn(data) ==
  /\ data.type = "noteOn"
  /\ notes' = MapSet(EnforcePolyphony(runNoteGarbageCollection(notes)),
                     NewNote(data.note, VelocityOf(data)))
  /\ thrown' = ""
  /\ UNCHANGED <<ringBufferLeft, ringBufferRight, playhead, generationHead,
                 samplesSinceLastCompute, pendingGCDebounce,
                 samplesSinceLastGCCounter, outputL, outputR>>

\* variant: the debounce is armed before the lookup of the note
HandleNoteOff_ArmsFirst(data) ==
  /\ data.type = "noteOff"
  /\ pendingGCDebounce' = TRUE
  /\ samplesSinceLastGCCounter' = 0
  /\ IF ~MapHas(notes, data.note)
       THEN /\ thrown' = "No note found for noteOff"
            /\ UNCHANGED notes
       ELSE /\ notes' = MapSet(notes, Released(MapGet(notes, data.note)))
            /\ thrown' = ""
  /\ UNCHANGED <<ringBufferLeft, ringBufferRight, playhead, generationHead,
                 samplesSinceLastCompute, outputL, outputR>>

\* variant: a note-off arms the debounce but lets the counter run on
HandleNoteOff_NoReset(data) ==
  /\ data.type = "noteOff"
  /\ IF ~MapHas(notes, data.note)
       THEN /\ thrown' = "No note found for noteOff"
            /\ UNCHANGED <<notes, pendingGCDebounce, samplesSinceLastGCCounter>>
       ELSE /\ notes' = MapSet(notes, Released(MapGet(notes, data.note)))
            /\ pendingGCDebounce' = TRUE
            /\ UNCHANGED samplesSinceLastGCCounter
            /\ thrown' = ""
  /\ UNCHANGED <<ringBufferLeft, ringBufferRight, playhead, generationHead,
                 samplesSinceLastCompute, outputL, outputR>>

\* the noteOff branch of port.onmessage
HandleNoteOff(data) ==
  /\ data.type = "noteOff"
  /\ IF ~MapHas(notes, data.note)
       THEN /\ thrown' = "No note found for noteOff"
            /\ UNCHANGED <<notes, pendingGCDebounce, samplesSinceLastGCCounter>>
       ELSE /\ notes' = MapSet(notes, Released(MapGet(notes, data.note)))
            /\ pendingGCDebounce' = TRUE
            /\ samplesSinceLastGCCounter' = 0
            /\ thrown' = ""
  /\ UNCHANGED <<ringBufferLeft, ringBufferRight, playhead, generationHead,
                 samplesSinceLastCompute, outputL, outputR>>

\* the messages of the transport buttons of the page
TransportMessages == {[type |-> "start"], [type |-> "stop"], [type |-> "compile"]}

\* a message of another type: neither branch of port.onmessage runs
HandleOther(data) ==
  /\ data.type \notin {"noteOn", "noteOff"}
  /\ thrown' = ""
  /\ UNCHANGED <<notes, ringBufferLeft, ringBufferRight, playhead, generationHead,
                 samplesSinceLastCompute, pendingGCDebounce,
                 samplesSinceLastGCCounter, outputL, outputR>>

\* port.onmessage
OnMessage(data) == HandleNoteOn(data) \/ HandleNoteOff(data) \/ HandleOther(data)

\* ------------------------------------------------------ JavaScript numbers
\* A non-negative number is a pair <<n, d>>: the fraction n / d in lowest terms
\* when d > 0, Infinity when it is <<1, 0>>, NaN when it is <<0, 0>>.
RECURSIVE GCD(_, _)
GCD(a, b) == IF b = 0 THEN a ELSE GCD(b, a % b)

Frac(n, d) == LET g == GCD(n, d) IN <<n \div g, d \div g>>

Zero == <<0, 1>>
One == <<1, 1>>
Infinity == <<1, 0>>
NaN == <<0, 0>>

IsFinite(x) == x[2] # 0

\* x + y
Plus(x, y) ==
  IF x = NaN \/ y = NaN THEN NaN
  ELSE IF x = Infinity \/ y = Infinity THEN Infinity
  ELSE Frac(x[1] * y[2] + y[1] * x[2], x[2] * y[2])

\* x / y
Over(x, y) ==
  IF x = NaN \/ y = NaN THEN NaN
  ELSE IF x = Infinity THEN (IF y = Infinity THEN NaN ELSE Infinity)
  ELSE IF y = Infinity THEN Zero
  ELSE IF y[1] = 0 THEN (IF x[1] = 0 THEN NaN ELSE Infinity)
  ELSE Frac(x[1] * y[2], x[2] * y[1])

RECURSIVE SumFrom(_, _, _)
SumFrom(xs, i, total) ==
  IF i > Len(xs) THEN total ELSE SumFrom(xs, i + 1, Plus(total, xs[i]))

\* let total = 0; for (const x of xs) total += x
Sum(xs) == SumFrom(xs, 1, Zero)

\* ------------------------------------------------------ the NXO definition
\* Object.values(def): the parameters of the harmonics, in ascending key order
ObjectValues(def) ==
  LET keys == SelectSeq([i \in 1..MaxHarmonic |-> i], LAMBDA h : h \in DOMAIN def)
  IN  [i \in 1..Len(keys) |-> def[keys[i]]]

TotalAmplitude(def) ==
  LET values == ObjectValues(def)
  IN  Sum([i \in 1..Len(values) |-> values[i].amplitude])

TotalSustain(def) ==
  LET values == ObjectValues(def)
  IN  Sum([i \in 1..Len(values) |-> values[i].sustain])

\* variant: one total, that of the amplitudes, divides both fields
normalizeNXODef_OneTotal(def) ==
  [h \in DOMAIN def |->
     [def[h] EXCEPT !.amplitude = Over(@, TotalAmplitude(def)),
                    !.sustain = Over(@, TotalAmplitude(def))]]

\* variant: both fields are divided by the number of harmonics
normalizeNXODef_ByCount(def) ==
  [h \in DOMAIN def |->
     [def[h] EXCEPT !.amplitude = Over(@, <<Cardinality(DOMAIN def), 1>>),
                    !.sustain = Over(@, <<Cardinality(DOMAIN def), 1>>)]]

\* normalizeNXODef(def): attack, decay and release are copied as they are
normalizeNXODef(def) ==
  [h \in DOMAIN def |->
     [def[h] EXCEPT !.amplitude = Over(@, TotalAmplitude(def)),
                    !.sustain = Over(@, TotalSustain(def))]]

\* the amplitude and sustain levels the definitions are drawn from
Levels == {Zero, <<1, 2>>, <<2, 1>>}

\* the attack, decay and release times they are drawn from, in ticks
Shapes == {[attack |-> 0, decay |-> 0, release |-> 0],
           [attack |-> 1, decay |-> 2, release |-> releaseNoteExpirationTime]}

ADSRParameters ==
  {[amplitude |-> a, attack |-> sh.attack, decay |-> sh.decay,
    sustain |-> s, release |-> sh.release] :
     a \in Levels, s \in Levels, sh \in Shapes}

\* the definitions with harmonics among 1..MaxHarmonic
NXODefs ==
  UNION {[hs -> ADSRParameters] : hs \in (SUBSET (1..MaxHarmonic)) \ {{}}}

\* the preset the processor imports: one harmonic, already normalized
exampleNXODef ==
  [h \in {1} |->
     [amplitude |-> One, attack |-> 1, decay |-> 2, sustain |-> One,
      release |-> releaseNoteExpirationTime]]

\* the latest definition: the input of the next normalizeNXODef call
Latest == IF normalized = <<>> THEN nxoDef ELSE normalized[Len(normalized)]

\* a preset module normalizes a definition (again)
Normalize ==
  /\ Len(normalized) < MaxPasses
  /\ normalized' = Append(normalized, normalizeNXODef(Latest))
  /\ UNCHANGED <<engine, outputL, outputR, thrown, noteOnLog, nxoDef, computer, others>>

\* ------------------------------------------------------------ envelopes
\* An envelope value is a level <<"level", x>>, x a number, or a term that
\* stands for a value of the exponential curve of one phase at one time,
\* <<"attack", t>>, <<"decay", t>> or <<"release", t>>, for the parameters and
\* numTau at hand; the curves are taken at their exact values where the
\* exponent is 0.  <<"undefined">> is what reading past a table returns.
Level(x) == <<"level", x>>

\* evaluateTrueADS(envelopeParameters, timeSinceNoteOn), the time in ticks
evaluateTrueADS(p, t) ==
  IF t < p.attack
    THEN IF p.amplitude = NaN THEN Level(NaN)
         ELSE IF p.amplitude = Infinity
           THEN (IF t = 0 THEN Level(NaN) ELSE Level(Infinity))
         ELSE IF t = 0 \/ p.amplitude = Zero THEN Level(Zero)
         ELSE <<"attack", t>>
  ELSE IF t < p.attack + p.decay
    THEN IF ~IsFinite(p.sustain) THEN Level(NaN)
         ELSE IF ~IsFinite(p.amplitude) THEN Level(p.amplitude)
         ELSE IF t = p.attack THEN Level(p.amplitude)
         ELSE IF p.amplitude = p.sustain THEN Level(p.sustain)
         ELSE <<"decay", t>>
  ELSE Level(p.sustain)

\* evaluateTrueR(envelopeParameters, timeSinceNoteOff)
evaluateTrueR(p, t) ==
  IF t >= p.release THEN Level(Zero)
  ELSE IF t = 0 THEN Level(One)
  ELSE <<"release", t>>

\* numEntries of a table that covers duration ticks
NumEntries(duration, samplesPerTableEntry) ==
  CeilDiv(CeilDiv(duration * sampleRate, TicksPerSecond), samplesPerTableEntry)

\* the table as a function on the indices 0 .. numEntries - 1
precomputeADSTable(p, samplesPerTableEntry) ==
  [i \in 0..(NumEntries(p.attack + p.decay, samplesPerTableEntry) - 1) |->
     evaluateTrueADS(p, SamplesToTime(i * samplesPerTableEntry))]

precomputeRTable(p, samplesPerTableEntry) ==
  [i \in 0..(NumEntries(p.release, samplesPerTableEntry) - 1) |->
     evaluateTrueR(p, SamplesToTime(i * samplesPerTableEntry))]

\* table[idx]
At(table, idx) == IF idx \in DOMAIN table THEN table[idx] ELSE <<"undefined">>

\* table.length
Length(table) == Cardinality(DOMAIN table)

\* !isFinite(v) for an envelope value
NonFinite(v) == v = <<"undefined">> \/ (v[1] = "level" /\ ~IsFinite(v[2]))

\* left + (right - left) * frac
Lerp(left, right, frac) ==
  IF NonFinite(left) THEN Level(NaN)
  ELSE IF NonFinite(right)
    THEN (IF right = Level(Infinity) /\ frac # Zero THEN Level(Infinity) ELSE Level(NaN))
  ELSE IF frac = Zero \/ left = right THEN left
  ELSE <<"lerp", left, right, frac>>

\* the closure createTableInterpolator(...) returns, applied to time (ticks):
\* the value it returns and the table indices it reads
createTableInterpolator(table, duration, samplesPerTableEntry, valueBefore, valueAfter, time) ==
  IF samplesPerTableEntry = 1
    THEN IF time <= 0 THEN [value |-> valueBefore, reads |-> {}]
         ELSE IF time >= duration THEN [value |-> valueAfter, reads |-> {}]
         ELSE LET idx == (time * sampleRate) \div TicksPerSecond
              IN  [value |-> At(table, idx), reads |-> {idx}]
    ELSE IF time <= 0 THEN [value |-> valueBefore, reads |-> {}]
         ELSE IF time >= duration THEN [value |-> valueAfter, reads |-> {}]
         ELSE LET span  == TicksPerSecond * samplesPerTableEntry
                  entry == (time * sampleRate) \div span
                  frac  == Frac((time * sampleRate) % span, span)
                  more  == entry + 1 < Length(table)
                  left  == At(table, entry)
                  right == IF more THEN At(table, entry + 1) ELSE valueAfter
              IN  [value |-> Lerp(left, right, frac),
                   reads |-> {entry} \cup (IF more THEN {entry + 1} ELSE {})]

createADSTableInterpolator(table, p, samplesPerTableEntry, time) ==
  createTableInterpolator(table, p.attack + p.decay, samplesPerTableEntry,
                          Level(Zero), Level(p.sustain), time)

createRTableInterpolator(table, p, samplesPerTableEntry, time) ==
  createTableInterpolator(table, p.release, samplesPerTableEntry,
                          Level(One), Level(Zero), time)

\* buildADSREngine(definition, sampleRate, numTau, samplesPerTableEntry)
buildADSREngine(p, samplesPerTableEntry) ==
  [definition |-> p,
   samplesPerTableEntry |-> samplesPerTableEntry,
   ads |-> [table |-> precomputeADSTable(p, samplesPerTableEntry)],
   r |-> [table |-> precomputeRTable(p, samplesPerTableEntry)]]

\* ads.interp(time) and r.interp(time)
AdsInterp(eng, time) ==
  createADSTableInterpolator(eng.ads.table, eng.definition,
                             eng.samplesPerTableEntry, time)

RInterp(eng, time) ==
  createRTableInterpolator(eng.r.table, eng.definition,
                           eng.samplesPerTableEntry, time)

\* x * y
Times(x, y) ==
  IF NonFinite(x) \/ NonFinite(y)
    THEN IF x = Level(Infinity) /\ y # Level(Zero) /\ ~NonFinite(y) THEN Level(Infinity)
         ELSE IF y = Level(Infinity) /\ x # Level(Zero) /\ ~NonFinite(x) THEN Level(Infinity)
         ELSE IF x = Level(Infinity) /\ y = Level(Infinity) THEN Level(Infinity)
         ELSE Level(NaN)
  ELSE IF y = Level(One) THEN x
  ELSE IF x = Level(One) THEN y
  ELSE IF x = Level(Zero) \/ y = Level(Zero) THEN Level(Zero)
  ELSE <<"times", x, y>>

whileNoteOn(eng, timeSinceNoteOn) == AdsInterp(eng, timeSinceNoteOn).value

whileNoteOff(eng, totalTimeNoteWasOn, timeSinceNoteOff) ==
  LET sustainTime == eng.definition.attack + eng.definition.decay
      startVal == IF totalTimeNoteWasOn >= sustainTime
                    THEN Level(eng.definition.sustain)
                    ELSE AdsInterp(eng, totalTimeNoteWasOn).value
  IN  Times(startVal, RInterp(eng, timeSinceNoteOff).value)

\* the parameters the envelopes are built from, the times in ticks
AttackTimes == {0, 1, 3}
DecayTimes == {0, 4}
ReleaseTimes == {0, 3, 5}

EnvelopeParameters ==
  {[amplitude |-> a, attack |-> at, decay |-> de, sustain |-> s, release |-> re] :
     a \in Levels, s \in Levels,
     at \in AttackTimes, de \in DecayTimes, re \in ReleaseTimes}

TableSteps == 1..MaxTableStep

\* the times the interpolators are asked for, and those the computer is
QueryTimes == (0 - 1)..MaxTime
NoteTimes == 0..MaxTime

NoProbe == [op |-> "none"]

\* a call of ads.interp and of r.interp at one time
Interpolate ==
  \E time \in QueryTimes :
    /\ probe' = [op |-> "interp", time |-> time,
                 ads |-> AdsInterp(adsr, time), r |-> RInterp(adsr, time)]
    /\ UNCHANGED <<engine, outputL, outputR, thrown, noteOnLog, preset, adsr, others>>

\* a call of whileNoteOn and of whileNoteOff for one note
Compute ==
  \E totalTimeNoteWasOn \in NoteTimes, timeSinceNoteOff \in NoteTimes :
    /\ probe' = [op |-> "compute",
                 totalTimeNoteWasOn |-> totalTimeNoteWasOn,
                 timeSinceNoteOff |-> timeSinceNoteOff,
                 on |-> whileNoteOn(adsr, totalTimeNoteWasOn),
                 off |-> whileNoteOff(adsr, totalTimeNoteWasOn, timeSinceNoteOff)]
    /\ UNCHANGED <<engine, outputL, outputR, thrown, noteOnLog, preset, adsr, others>>

\* the computer of the processor: the engine of the one harmonic of its preset
InitComputer ==
  /\ adsr = buildADSREngine(exampleNXODef[1], SAMPLES_PER_TABLE_ENTRY)
  /\ probe = NoProbe

\* ---------------------------------------------------------- rendering
RingIndices == 0..(RING_BUFFER_SIZE - 1)

\* variant: only the RECOMPUTE_AFTER positions the head advances over are written
Written_Short(gh, idx) ==
  \E i \in 0..(RECOMPUTE_AFTER - 1) : trueMod(gh + i, RING_BUFFER_SIZE) = idx

\* the ring positions generateMoreSamples() writes when generationHead = gh
Written(gh, idx) ==
  \E i \in 0..(BUFFER_SIZE - 1) : trueMod(gh + i, RING_BUFFER_SIZE) = idx

\* offset i of the block entry that lands on ring position idx
OffsetOf(gh, idx) ==
  CHOOSE i \in 0..(BUFFER_SIZE - 1) : trueMod(gh + i, RING_BUFFER_SIZE) = idx

\* env of one note at block entry i: whileNoteOn(t) or whileNoteOff(..., ...)
\* of the computer, for t = (samplesSinceNoteOn + i) / sampleRate
EnvelopeAt(noteData, i) ==
  LET t == SamplesToTime(noteData.samplesSinceNoteOn + i)
  IN  IF noteData.on
        THEN whileNoteOn(adsr, t)
        ELSE whileNoteOff(adsr, noteData.totalTimeNoteWasOn,
                          t - noteData.totalTimeNoteWasOn)

\* generationBuffer[i] of a block computed at render-clock phase clock: NaN
\* when the env of a note is not finite there (the sum is then not finite)
GeneratedSample(clock, i) ==
  IF \E n \in 1..Len(notes) : NonFinite(EnvelopeAt(notes[n], i))
    THEN NaN
    ELSE <<trueMod(clock + i, RING_BUFFER_SIZE)>>

\* the ring buffer after generateMoreSamples(), called at render-clock phase clock
GeneratedRing(ring, gh, clock) ==
  [idx \in RingIndices |->
     IF Written(gh, idx)
       THEN GeneratedSample(clock, OffsetOf(gh, idx))
       ELSE ring[idx]]

\* variant: the head advances by the whole block written
AdvancedHead_WholeBlock(gh) == trueMod(gh + BUFFER_SIZE, RING_BUFFER_SIZE)

\* variant: the head advances without wrapping
AdvancedHead_Unwrapped(gh) == gh + RECOMPUTE_AFTER

\* generationHead after generateMoreSamples()
AdvancedHead(gh) == trueMod(gh + RECOMPUTE_AFTER, RING_BUFFER_SIZE)

\* variant: a generation waits until more than RECOMPUTE_AFTER was consumed
MustGenerate_Strict(sinceLastCompute) == sinceLastCompute > RECOMPUTE_AFTER

\* if (this.samplesSinceLastCompute >= RECOMPUTE_AFTER)
MustGenerate(sinceLastCompute) == sinceLastCompute >= RECOMPUTE_AFTER

\* variant: the block is read backwards from the playhead
ReadIndex_Backwards(ph, i) == trueMod(ph - i, RING_BUFFER_SIZE)

\* the ring position read for output entry i (0-based)
ReadIndex(ph, i) == trueMod(ph + i, RING_BUFFER_SIZE)

\* the loop that pulls outputLen samples from a ring buffer
Pull(ring, ph, outputLen) == [i \in 1..outputLen |-> ring[ReadIndex(ph, i - 1)]]

\* variant: only the held notes are advanced
AdvanceNotes_HeldOnly(ns, outputLen) ==
  [i \in 1..Len(ns) |->
     IF ns[i].on
       THEN [ns[i] EXCEPT !.samplesSinceNoteOn = ns[i].samplesSinceNoteOn + outputLen]
       ELSE ns[i]]

\* note.samplesSinceNoteOn += outputLen, for every note
AdvanceNotes(ns, outputLen) ==
  [i \in 1..Len(ns) |->
     [ns[i] EXCEPT !.samplesSinceNoteOn = ns[i].samplesSinceNoteOn + outputLen]]

\* variant: the sweep of process() never fires
DebounceElapsed_Never(counter) == counter < 0

\* variant: the sweep waits for the counter to pass the threshold (> for >=)
DebounceElapsed_Late(counter) == counter > GC_DEBOUNCE_SAMPLES

\* if (this.samplesSinceLastGCCounter >= this.GC_DEBOUNCE_SAMPLES)
DebounceElapsed(counter) == counter >= GC_DEBOUNCE_SAMPLES

\* variant: the generation writes the left ring buffer only
Process_LeftOnly(outputLen) ==
  LET gen   == MustGenerate(samplesSinceLastCompute)
      left  == IF gen THEN GeneratedRing(ringBufferLeft, generationHead, playhead)
                      ELSE ringBufferLeft
      right == ringBufferRight
      moved == AdvanceNotes(notes, outputLen)
      count == samplesSinceLastGCCounter + outputLen
  IN  /\ \A i \in 1..Len(notes) : notes[i].samplesSinceNoteOn + outputLen <= MaxSamples
      /\ ringBufferLeft' = left
      /\ ringBufferRight' = right
      /\ generationHead' = IF gen THEN AdvancedHead(generationHead) ELSE generationHead
      /\ outputL' = Pull(left, playhead, outputLen)
      /\ outputR' = Pull(right, playhead, outputLen)
      /\ playhead' = trueMod(playhead + outputLen, RING_BUFFER_SIZE)
      /\ samplesSinceLastCompute' = (IF gen THEN 0 ELSE samplesSinceLastCompute) + outputLen
      /\ IF pendingGCDebounce
           THEN /\ samplesSinceLastGCCounter' = count
                /\ IF DebounceElapsed(count)
                     THEN /\ notes' = runNoteGarbageCollection(moved)
                          /\ pendingGCDebounce' = FALSE
                     ELSE /\ notes' = moved
                          /\ pendingGCDebounce' = TRUE
           ELSE /\ notes' = moved
                /\ UNCHANGED <<pendingGCDebounce, samplesSinceLastGCCounter>>
      /\ thrown' = ""

\* process(inputs, outputs) with two output channels of outputLen samples
Process(outputLen) ==
  LET gen   == MustGenerate(samplesSinceLastCompute)
      left  == IF gen THEN GeneratedRing(ringBufferLeft, generationHead, playhead)
                      ELSE ringBufferLeft
      right == IF gen THEN GeneratedRing(ringBufferRight, generationHead, playhead)
                      ELSE ringBufferRight
      moved == AdvanceNotes(notes, outputLen)
      count == samplesSinceLastGCCounter + outputLen
  IN  /\ \A i \in 1..Len(notes) : notes[i].samplesSinceNoteOn + outputLen <= MaxSamples
      /\ ringBufferLeft' = left
      /\ ringBufferRight' = right
      /\ generationHead' = IF gen THEN AdvancedHead(generationHead) ELSE generationHead
      /\ outputL' = Pull(left, playhead, outputLen)
      /\ outputR' = Pull(right, playhead, outputLen)
      /\ playhead' = trueMod(playhead + outputLen, RING_BUFFER_SIZE)
      /\ samplesSinceLastCompute' = (IF gen THEN 0 ELSE samplesSinceLastCompute) + outputLen
      /\ IF pendingGCDebounce
           THEN /\ samplesSinceLastGCCounter' = count
                /\ IF DebounceElapsed(count)
                     THEN /\ notes' = runNoteGarbageCollection(moved)
                          /\ pendingGCDebounce' = FALSE
                     ELSE /\ notes' = moved
                          /\ pendingGCDebounce' = TRUE
           ELSE /\ notes' = moved
                /\ UNCHANGED <<pendingGCDebounce, samplesSinceLastGCCounter>>
      /\ thrown' = ""

\* the channel counts of outputs[0] a host may hand to process()
ChannelCounts == {1, 2, 3}

ExpectedTwoChannels == "Expected 2 output channels."

\* variant: the channel count is checked after the recompute
ProcessOutputs_ChecksLate(channelCount, outputLen) ==
  IF channelCount # 2
    THEN LET gen == MustGenerate(samplesSinceLastCompute)
         IN  /\ ringBufferLeft' =
                  (IF gen THEN GeneratedRing(ringBufferLeft, generationHead, playhead)
                          ELSE ringBufferLeft)
             /\ ringBufferRight' =
                  (IF gen THEN GeneratedRing(ringBufferRight, generationHead, playhead)
                          ELSE ringBufferRight)
             /\ generationHead' =
                  (IF gen THEN AdvancedHead(generationHead) ELSE generationHead)
             /\ samplesSinceLastCompute' = (IF gen THEN 0 ELSE samplesSinceLastCompute)
             /\ thrown' = ExpectedTwoChannels
             /\ UNCHANGED <<notes, playhead, pendingGCDebounce,
                            samplesSinceLastGCCounter, outputL, outputR>>
    ELSE Process(outputLen)

\* process(inputs, outputs) with channelCount output channels of outputLen samples
ProcessOutputs(channelCount, outputLen) ==
  IF channelCount # 2
    THEN /\ thrown' = ExpectedTwoChannels
         /\ UNCHANGED <<notes, ringBufferLeft, ringBufferRight, playhead,
                        generationHead, samplesSinceLastCompute, pendingGCDebounce,
                        samplesSinceLastGCCounter, outputL, outputR>>
    ELSE Process(outputLen)

\* ------------------------------------------------- the output conditioner
\* softClip(x) = x / (1 + Math.abs(x)) of a sample: 0 is its fixed point,
\* NaN stays NaN, Infinity / (1 + Infinity) is NaN, and <<t, 1, t>> stands
\* for x / (1 + |x|) of the sample x = <<t>>
softClip(x) ==
  IF x = Infinity THEN NaN
  ELSE IF Len(x) = 1 THEN <<x[1], 1, x[1]>>
  ELSE x

\* isFinite(x) of a sample
IsFiniteSample(x) == x # NaN /\ x # Infinity

\* a finite value that came out of the smoothing sum
Smoothed == <<0, 0, 0, 0>>

\* bufferSize of the filter: the length of its four history arrays
bufferSize == 3

\* b0 * x0 + b1 * x1 + a1 * y1 + a2 * y2: not finite as soon as one term is
\* not (a2 = 0.0 does not remove a NaN), 0 when x0, x1 and y1 are 0
Smooth(x0, x1, y1, y2) ==
  IF ~(IsFiniteSample(x0) /\ IsFiniteSample(x1) /\ IsFiniteSample(y1) /\ IsFiniteSample(y2))
    THEN NaN
  ELSE IF x0 = <<>> /\ x1 = <<>> /\ y1 = <<>> THEN <<>>
  ELSE Smoothed

\* new StereoAntiPopFilter(bufferSize)
NewFilter ==
  [inputL |-> [i \in 0..(bufferSize - 1) |-> <<>>],
   inputR |-> [i \in 0..(bufferSize - 1) |-> <<>>],
   outputL |-> [i \in 0..(bufferSize - 1) |-> <<>>],
   outputR |-> [i \in 0..(bufferSize - 1) |-> <<>>],
   index |-> 0,
   returned |-> <<>>]

\* StereoAntiPopFilter.process(inL, inR): the filter after the call, its
\* return value in the field returned
FilterProcess(f, inL, inR) ==
  LET i     == f.index
      prev1 == trueMod(i - 1, bufferSize)
      prev2 == trueMod(i - 2, bufferSize)
      clipL == softClip(inL)
      clipR == softClip(inR)
      yL    == softClip(Smooth(clipL, f.inputL[prev1], f.outputL[prev1], f.outputL[prev2]))
      yR    == softClip(Smooth(clipR, f.inputR[prev1], f.outputR[prev1], f.outputR[prev2]))
  IN  [inputL |-> [f.inputL EXCEPT ![i] = clipL],
       inputR |-> [f.inputR EXCEPT ![i] = clipR],
       outputL |-> [f.outputL EXCEPT ![i] = yL],
       outputR |-> [f.outputR EXCEPT ![i] = yR],
       index |-> (i + 1) % bufferSize,
       returned |-> <<yL, yR>>]

\* the samples a caller may hand to the filter
FilterInputs == {<<>>, <<1>>, NaN, Infinity}

\* one call of antiPopFilter.process
Filter ==
  \E inL \in FilterInputs, inR \in FilterInputs :
    /\ antiPopFilter' = FilterProcess(antiPopFilter, inL, inR)
    /\ UNCHANGED <<engine, outputL, outputR, thrown, noteOnLog, preset, computer,
                   keysDown, recorder>>

\* ------------------------------------------------------------ the Recorder
\* the component as first rendered: recording is its React state, chunks and
\* size are chunksRef.current (the sizes of the Blobs) and sizeRef.current,
\* state is the state of the MediaRecorder ("none" while there is none) and
\* queue the events a stopped MediaRecorder has still to fire
NewRecorder(stream, memoryLimitBytes) ==
  [stream |-> stream, memoryLimitBytes |-> memoryLimitBytes,
   recording |-> FALSE, chunks |-> <<>>, size |-> 0,
   state |-> "none", queue |-> <<>>]

\* the sum of the sizes of the chunks kept
RECURSIVE TotalFrom(_, _)
TotalFrom(chunks, i) ==
  IF i > Len(chunks) THEN 0 ELSE chunks[i] + TotalFrom(chunks, i + 1)

TotalSize(chunks) == TotalFrom(chunks, 1)

\* mr.stop(): a recording MediaRecorder becomes inactive and fires a last
\* dataavailable event and then its stop event
Stopped(r) ==
  IF r.state = "recording"
    THEN [r EXCEPT !.state = "inactive", !.queue = <<"dataavailable", "stop">>]
    ELSE r

\* variant: the chunk is stored before the limit is looked at
ondataavailable_StoresFirst(r, size) ==
  IF size = 0 THEN r
  ELSE LET nextSize == r.size + size
           kept     == [r EXCEPT !.chunks = Append(r.chunks, size), !.size = nextSize]
       IN  IF nextSize > r.memoryLimitBytes THEN Stopped(kept) ELSE kept

\* mr.ondataavailable, for an event whose data has the given size
ondataavailable(r, size) ==
  IF size = 0 THEN r
  ELSE LET nextSize == r.size + size
       IN  IF nextSize > r.memoryLimitBytes
             THEN Stopped(r)
             ELSE [r EXCEPT !.chunks = Append(r.chunks, size), !.size = nextSize]

ChunkSizes == 0..MaxChunk

MemoryLimits == 0..MaxLimit

\* start(), the click on "Start Recording"
RecorderStart ==
  /\ recorder' = IF (~recorder.stream) \/ recorder.recording
                   THEN recorder
                   ELSE [recorder EXCEPT !.chunks = <<>>, !.size = 0,
                                         !.state = "recording", !.queue = <<>>,
                                         !.recording = TRUE]
  /\ UNCHANGED <<engine, outputL, outputR, thrown, noteOnLog, preset, computer,
                 keysDown, antiPopFilter>>

\* stop(), the click on "Stop Recording"
RecorderStop ==
  /\ recorder' = Stopped(recorder)
  /\ UNCHANGED <<engine, outputL, outputR, thrown, noteOnLog, preset, computer,
                 keysDown, antiPopFilter>>

\* the MediaRecorder fires dataavailable: while it records, or as the first
\* of the two events that follow stop()
DataAvailable ==
  \E size \in ChunkSizes :
    /\ \/ /\ recorder.state = "recording"
          /\ recorder' = ondataavailable(recorder, size)
       \/ /\ recorder.queue # <<>> /\ Head(recorder.queue) = "dataavailable"
          /\ recorder' = ondataavailable([recorder EXCEPT !.queue = Tail(recorder.queue)], size)
    /\ UNCHANGED <<engine, outputL, outputR, thrown, noteOnLog, preset, computer,
                   keysDown, antiPopFilter>>

\* mr.onstop
OnStop ==
  /\ recorder.queue # <<>> /\ Head(recorder.queue) = "stop"
  /\ recorder' = [recorder EXCEPT !.queue = Tail(recorder.queue), !.recording = FALSE]
  /\ UNCHANGED <<engine, outputL, outputR, thrown, noteOnLog, preset, computer,
                 keysDown, antiPopFilter>>

\* ------------------------------------------------------ specifications
InitProcessor ==
  /\ notes = <<>>
  /\ ringBufferLeft = [idx \in RingIndices |-> <<>>]
  /\ ringBufferRight = [idx \in RingIndices |-> <<>>]
  /\ playhead = 0
  /\ generationHead = 0
  /\ samplesSinceLastCompute = RECOMPUTE_AFTER
  /\ pendingGCDebounce = FALSE
  /\ samplesSinceLastGCCounter = 0
  /\ outputL = <<>>
  /\ outputR = <<>>
  /\ thrown = ""
  /\ noteOnLog = <<>>

\* no key down, no stream to record, a new filter
InitOthers ==
  /\ keysDown = {}
  /\ recorder = NewRecorder(FALSE, 0)
  /\ antiPopFilter = NewFilter

\* the processor built on the preset it imports
Init ==
  /\ InitProcessor
  /\ InitOthers
  /\ nxoDef = exampleNXODef
  /\ normalized = <<>>
  /\ InitComputer

NoteOn == \E data \in NoteOnMessages : OnMessage(data) /\ UNCHANGED <<noteOnLog, preset, computer, others>>

NoteOff == \E data \in NoteOffMessages : OnMessage(data) /\ UNCHANGED <<noteOnLog, preset, computer, others>>

\* a host that renders in blocks of one fixed length
Render == Process(Quantum) /\ UNCHANGED <<noteOnLog, preset, computer, others>>

\* a host whose block length varies from call to call
RenderAny == \E outputLen \in BlockLengths : Process(outputLen) /\ UNCHANGED <<noteOnLog, preset, computer, others>>

\* a note-on whose key is appended to the history
NoteOnLogged ==
  \E data \in NoteOnMessagesFor(CapKeys) :
    /\ Len(noteOnLog) < MaxLog
    /\ OnMessage(data)
    /\ noteOnLog' = Append(noteOnLog, data.note)
    /\ UNCHANGED <<preset, computer, others>>

\* the engine under note messages and a fixed-quantum host
Next == NoteOn \/ NoteOff \/ Render

Spec == Init /\ [][Next]_vars

\* the scheduler alone, under host blocks of varying length
NextHost == RenderAny

SpecHost == Init /\ [][NextHost]_vars

\* note-ons without any note-off, from the empty voice set
NextCap == NoteOnLogged \/ Render

SpecCap == Init /\ [][NextCap]_vars

\* one key played and released under host blocks of varying length
NoteOnSolo ==
  \E data \in NoteOnMessagesFor(SoloKeys) : OnMessage(data) /\ UNCHANGED <<noteOnLog, preset, computer, others>>

\* the key is released only while it is in the set
NoteOffSolo ==
  \E data \in NoteOffMessages :
    /\ data.note \in SoloKeys \cap MapKeys(notes)
    /\ OnMessage(data)
    /\ UNCHANGED <<noteOnLog, preset, computer, others>>

NextMix == NoteOnSolo \/ NoteOffSolo \/ RenderAny

SpecMix == Init /\ [][NextMix]_vars

\* a preset module that normalizes any definition, before any processor runs
InitPreset ==
  /\ InitProcessor
  /\ InitOthers
  /\ nxoDef \in NXODefs
  /\ normalized = <<>>
  /\ InitComputer

NextPreset == Normalize

SpecPreset == InitPreset /\ [][NextPreset]_vars

\* an envelope engine built for any parameters and any table step, then asked
InitEnvelope ==
  /\ InitProcessor
  /\ InitOthers
  /\ nxoDef = exampleNXODef
  /\ normalized = <<>>
  /\ \E p \in EnvelopeParameters, samplesPerTableEntry \in TableSteps :
       adsr = buildADSREngine(p, samplesPerTableEntry)
  /\ probe = NoProbe

NextEnvelope == Interpolate \/ Compute

SpecEnvelope == InitEnvelope /\ [][NextEnvelope]_vars

\* the second definition of the preset file: no sustain level, so that
\* normalizeNXODef makes its sustain level 0 / 0
zeroSustainNXODef ==
  normalizeNXODef([h \in {1} |->
                     [amplitude |-> One, attack |-> 1, decay |-> 2, sustain |-> Zero,
                      release |-> releaseNoteExpirationTime]])

Presets == {exampleNXODef, zeroSustainNXODef}

\* a message of the transport buttons
Transport ==
  \E data \in TransportMessages :
    OnMessage(data) /\ UNCHANGED <<noteOnLog, preset, computer, others>>

\* a fixed-quantum host with any number of output channels
RenderOutputs ==
  \E channelCount \in ChannelCounts :
    ProcessOutputs(channelCount, Quantum) /\ UNCHANGED <<noteOnLog, preset, computer, others>>

\* const harmonics = Array.from(Object.keys(exampleNXODef)).map(Number)
harmonics == DOMAIN nxoDef

\* computer.processors: the engine of harmonic 1 is the one the model keeps
processors == [h \in {1} |-> adsr]

\* variant: the computer is built from the definition with no sustain level,
\* whatever definition the harmonic list comes from
InitSolo_OtherDefinition ==
  /\ InitProcessor
  /\ InitOthers
  /\ nxoDef \in Presets
  /\ normalized = <<>>
  /\ adsr = buildADSREngine(zeroSustainNXODef[1], SAMPLES_PER_TABLE_ENTRY)
  /\ probe = NoProbe

\* the processor built on either preset, one key, the page's transport
\* messages and a host with any channel count
InitSolo ==
  /\ InitProcessor
  /\ InitOthers
  /\ nxoDef \in Presets
  /\ normalized = <<>>
  /\ adsr = buildADSREngine(nxoDef[1], SAMPLES_PER_TABLE_ENTRY)
  /\ probe = NoProbe

NextSolo == NoteOnSolo \/ NoteOffSolo \/ RenderOutputs \/ Transport

SpecSolo == InitSolo /\ [][NextSolo]_vars

\* a client that keeps track of the keys it holds down: it presses a key that
\* is up while fewer than MAX_VOICES are down, at most MaxLog times in all
PressOneOf(keys) ==
  \E data \in NoteOnMessagesFor(keys) :
    /\ Len(noteOnLog) < MaxLog
    /\ data.note \notin keysDown
    /\ Cardinality(keysDown) < MAX_VOICES
    /\ OnMessage(data)
    /\ keysDown' = keysDown \cup {data.note}
    /\ noteOnLog' = Append(noteOnLog, data.note)
    /\ UNCHANGED <<preset, computer, recorder, antiPopFilter>>

\* it releases a key that is down
Release ==
  \E data \in NoteOffMessages :
    /\ data.note \in keysDown
    /\ OnMessage(data)
    /\ keysDown' = keysDown \ {data.note}
    /\ UNCHANGED <<noteOnLog, preset, computer, recorder, antiPopFilter>>

Press == PressOneOf(Keys \ VelocityKeys)

NextClient == Press \/ Release \/ Render

SpecClient == Init /\ [][NextClient]_vars

\* a client with one key, under a host that keeps calling process()
PressSolo == PressOneOf(SoloKeys)

NextLive == PressSolo \/ Release \/ Render

SpecLive == Init /\ [][NextLive]_vars /\ WF_vars(Render)

\* the filter alone, fed finite samples and samples that are not
NextFilter == Filter

SpecFilter == Init /\ [][NextFilter]_vars

\* the Recorder alone, for any stream and any memory limit
InitRecorder ==
  /\ InitProcessor
  /\ nxoDef = exampleNXODef
  /\ normalized = <<>>
  /\ InitComputer
  /\ keysDown = {}
  /\ antiPopFilter = NewFilter
  /\ \E stream \in BOOLEAN, memoryLimitBytes \in MemoryLimits :
       recorder = NewRecorder(stream, memoryLimitBytes)

NextRecorder == RecorderStart \/ RecorderStop \/ DataAvailable \/ OnStop

SpecRecorder == InitRecorder /\ [][NextRecorder]_vars

\* ======================================================= the scheduler
\* how far generationHead is ahead of playhead, around the ring
Margin == trueMod(generationHead - playhead, RING_BUFFER_SIZE)

\* the last process() call generated before it read
JustGenerated == outputL # <<>> /\ samplesSinceLastCompute = Len(outputL)

\* C1 as stated: after any sequence of process() calls the generation head is
\* at least BUFFER_SIZE - RECOMPUTE_AFTER ahead of the playhead.
C1_MarginAtLeastOverlap ==
  outputL # <<>> => Margin >= BUFFER_SIZE - RECOMPUTE_AFTER

\* C1 amended: the margin is 0 after construction; a process() call of length L
\* adds RECOMPUTE_AFTER - L to it (modulo RING_BUFFER_SIZE) when a generation
\* was due on entry and subtracts L from it otherwise.
C1_MarginStep ==
  /\ Margin = 0
  /\ [][LET L == Len(outputL')
            due == samplesSinceLastCompute >= RECOMPUTE_AFTER
        IN  Margin' = trueMod(Margin + (IF due THEN RECOMPUTE_AFTER ELSE 0) - L,
                              RING_BUFFER_SIZE)]_vars

\* a call has just generated and the margin is below the claimed bound
C1_Witness == JustGenerated /\ Margin < BUFFER_SIZE - RECOMPUTE_AFTER

\* start of the block written by the most recent generateMoreSamples() call
LastBlockStart == trueMod(generationHead - RECOMPUTE_AFTER, RING_BUFFER_SIZE)

\* ring position idx lies in the block of BUFFER_SIZE positions that starts at start
InBlock(start, idx) == trueMod(idx - start, RING_BUFFER_SIZE) < BUFFER_SIZE

\* C2: with host blocks of positive length at most MaxBlock (below
\* RECOMPUTE_AFTER), every ring position a process() call copies to the output
\* lies inside the block written by the most recent generateMoreSamples() call.
C2_ReadsInsideLastBlock ==
  [][\A i \in 0..(Len(outputL') - 1) :
       InBlock(LastBlockStart', trueMod(playhead + i, RING_BUFFER_SIZE))]_vars

\* ======================================================= the voice set
Range(f) == {f[i] : i \in DOMAIN f}

\* a process() call has run in this step (its block is shorter than the ring)
RenderStep == playhead' # playhead

Distinct(seq) == \A i, j \in 1..Len(seq) : i # j => seq[i] # seq[j]

\* the keys of the map, in insertion order
KeySeq(ns) == [i \in 1..Len(ns) |-> ns[i].id]

LastOf(seq, n) == SubSeq(seq, Len(seq) - n + 1, Len(seq))

\* the voice set holds exactly the MAX_VOICES most recent note-ons of the log
HoldsLatest == Len(notes) = MAX_VOICES /\ KeySeq(notes) = LastOf(noteOnLog, MAX_VOICES)

\* C3 as stated: from the empty voice set, MAX_VOICES + k note-ons (k > 0) and
\* no note-off leave exactly MAX_VOICES notes, the k earliest having been removed.
C3_CapKeepsLatest == Len(noteOnLog) > MAX_VOICES => HoldsLatest

\* C3 amended: from the empty voice set, MAX_VOICES + k note-ons (k > 0) on
\* pairwise distinct keys and no note-off (render calls interleaved) leave
\* exactly MAX_VOICES notes: the MAX_VOICES most recent ones, in note-on order,
\* so that the k earliest were removed, earliest first.
C3_CapKeepsLatestDistinct ==
  (Len(noteOnLog) > MAX_VOICES /\ Distinct(noteOnLog)) => HoldsLatest

\* two evictions have happened, with rendering between the note-ons
C3_Witness ==
  /\ Len(noteOnLog) = MAX_VOICES + 2
  /\ Distinct(noteOnLog)
  /\ \E i \in 1..Len(notes) : notes[i].samplesSinceNoteOn > 0

\* C4: on a note-on, when MAX_VOICES or more notes survive the eager sweep,
\* exactly one of them is evicted before the new note is inserted, and it is
\* one whose samplesSinceNoteOn is maximal among them, held or released.
C4_EvictsOneOldest ==
  [][LET g == runNoteGarbageCollection(notes)
     IN  (~RenderStep /\ Len(notes) >= MAX_VOICES /\ Len(g) >= MAX_VOICES) =>
           \A data \in NoteOnMessages :
             HandleNoteOn(data) =>
               \E i \in 1..Len(g) :
                 /\ \A j \in 1..Len(g) : g[j].samplesSinceNoteOn <= g[i].samplesSinceNoteOn
                 /\ MapKeys(notes') = (MapKeys(g) \ {g[i].id}) \cup {data.note}
                 /\ \A j \in 1..Len(g) :
                      (j # i /\ g[j].id # data.note) => g[j] \in Range(notes')]_vars

\* the voice set is full of held notes right after a note-off with no rendering
\* since, and its first note was already sounding at that note-off: the note
\* released by it was evicted by the note-on that followed
C4_Witness ==
  /\ pendingGCDebounce /\ samplesSinceLastGCCounter = 0
  /\ Len(notes) = MAX_VOICES
  /\ \A i \in 1..Len(notes) : notes[i].on
  /\ notes[1].samplesSinceNoteOn > 0

NoNoteFound == "No note found for noteOff"

\* C5: a note-off for a key with no active note raises an error and leaves the
\* engine state (notes, debounce flag and counter, ring buffers, playhead,
\* generationHead, samplesSinceLastCompute) unchanged.
C5_UnknownNoteOffChangesNothing ==
  [][\A data \in NoteOffMessages :
       (data.note \notin MapKeys(notes) /\ HandleNoteOff(data)) =>
         (thrown' = NoNoteFound /\ UNCHANGED engine /\ UNCHANGED <<outputL, outputR>>)]_vars

\* the error has been raised while a note-off is pending collection
C5_Witness == thrown = NoNoteFound /\ notes # <<>> /\ pendingGCDebounce

\* C6: a note-off for a key with a held note sets on = false and
\* totalTimeNoteWasOn = samplesSinceNoteOn / sampleRate, keeps the note in the
\* set, and leaves its velocity, its samplesSinceNoteOn and every other note unchanged.
C6_NoteOffReleasesInPlace ==
  [][\A data \in NoteOffMessages :
       ((\E i \in 1..Len(notes) : notes[i].id = data.note /\ notes[i].on)
          /\ HandleNoteOff(data)) =>
         /\ Len(notes') = Len(notes)
         /\ \A i \in 1..Len(notes) :
              IF notes[i].id = data.note
                THEN /\ notes'[i].id = notes[i].id
                     /\ notes'[i].on = FALSE
                     /\ notes'[i].totalTimeNoteWasOn * sampleRate
                          = notes[i].samplesSinceNoteOn * TicksPerSecond
                     /\ notes'[i].velocity = notes[i].velocity
                     /\ notes'[i].samplesSinceNoteOn = notes[i].samplesSinceNoteOn
                ELSE notes'[i] = notes[i]]_vars

\* a note has just been released after sounding for a while, next to another note
C6_Witness ==
  /\ pendingGCDebounce /\ samplesSinceLastGCCounter = 0
  /\ Len(notes) = MAX_VOICES
  /\ \E i \in 1..Len(notes) : (~notes[i].on) /\ notes[i].totalTimeNoteWasOn > 0
  /\ \E i \in 1..Len(notes) : notes[i].on /\ notes[i].velocity = 100

\* C7: the totalTimeNoteWasOn of a released note never changes afterwards,
\* over any sequence of note-on, note-off and render events.
C7_ReleaseTimeSetOnce ==
  [][\A i \in 1..Len(notes) : \A j \in 1..Len(notes') :
       ((~notes[i].on) /\ (~notes'[j].on) /\ notes'[j].id = notes[i].id) =>
         notes'[j].totalTimeNoteWasOn = notes[i].totalTimeNoteWasOn]_vars

\* C8: a note-on for a key that already has an active note is an error and
\* does not replace or reset the existing note.
C8_NoteOnActiveKeyIsError ==
  [][\A data \in NoteOnMessages :
       (data.note \in MapKeys(notes) /\ HandleNoteOn(data)) =>
         /\ thrown' # ""
         /\ notes' = notes]_vars

\* ================================================= garbage collection
\* time since note-off <= expiration time, both sides multiplied by sampleRate
WithinExpiration(n) ==
  n.samplesSinceNoteOn * TicksPerSecond - n.totalTimeNoteWasOn * sampleRate
    <= releaseNoteExpirationTime * sampleRate

\* a sweep keeps held notes and released notes not past the expiration time
Survives(n) == n.on \/ WithinExpiration(n)

\* n with its counter advanced by d samples
Later(n, d) == [n EXCEPT !.samplesSinceNoteOn = n.samplesSinceNoteOn + d]

\* C9: a sweep removes exactly the released notes whose time since note-off
\* exceeds releaseNoteExpirationTime: never a held note, never a released note
\* within the expiration time, and it changes no field of a surviving note.
\* Checked where the sweeps run: in the process() call in which the debounce
\* elapses, and at the start of a note-on (seen when no eviction follows).
C9_SweepRemovesExactlyExpired ==
  [][/\ (RenderStep /\ pendingGCDebounce /\ ~pendingGCDebounce') =>
          notes' = SelectSeq([i \in 1..Len(notes) |-> Later(notes[i], Len(outputL'))],
                             Survives)
     /\ \A data \in NoteOnMessages :
          (Len(SelectSeq(notes, Survives)) < MAX_VOICES
             /\ data.note \notin MapKeys(notes) /\ HandleNoteOn(data)) =>
            SubSeq(notes', 1, Len(notes') - 1) = SelectSeq(notes, Survives)]_vars

\* the debounced sweep has run and left a single held note that was already
\* sounding at the last note-off: the note released then was collected
C9_Witness ==
  /\ ~pendingGCDebounce /\ samplesSinceLastGCCounter >= GC_DEBOUNCE_SAMPLES
  /\ Len(notes) = 1 /\ notes[1].on
  /\ notes[1].samplesSinceNoteOn > samplesSinceLastGCCounter

\* samples rendered since the note-off recorded in n
SamplesSinceOff(n) ==
  n.samplesSinceNoteOn - (n.totalTimeNoteWasOn * sampleRate) \div TicksPerSecond

\* C10 as stated: a released note stays in the active set until expirationTime
\* after its note-off, and is absent once 1.5 x expirationTime has been
\* rendered since its note-off, whatever the other note events.
C10_ExactWindow ==
  /\ [][\A i \in 1..Len(notes) :
          ((~notes[i].on) /\ notes[i].id \notin MapKeys(notes')) =>
            ~WithinExpiration(Later(notes[i], IF RenderStep THEN Len(outputL') ELSE 0))]_vars
  /\ [](\A i \in 1..Len(notes) :
          (~notes[i].on) => SamplesSinceOff(notes[i]) < GC_DEBOUNCE_SAMPLES)

\* C10 amended: a released note leaves the active set within expirationTime of
\* its note-off only in a note-on (polyphony eviction or a note-on on its key),
\* never in a sweep of process(); and it is absent once GC_DEBOUNCE_SAMPLES
\* samples have been rendered since the most recent note-off on any key.
C10_DebouncedWindow ==
  /\ [][\A i \in 1..Len(notes) :
          ((~notes[i].on) /\ notes[i].id \notin MapKeys(notes')) =>
            \/ \E data \in NoteOnMessages : HandleNoteOn(data)
            \/ RenderStep /\ ~WithinExpiration(Later(notes[i], Len(outputL')))]_vars
  /\ [](\A i \in 1..Len(notes) :
          (~notes[i].on) =>
            pendingGCDebounce /\ samplesSinceLastGCCounter < GC_DEBOUNCE_SAMPLES)

\* a released note is still in the set 1.5 x expirationTime after its own
\* note-off, a later note-off having re-armed the debounce
C10_Witness ==
  \E i \in 1..Len(notes) :
    (~notes[i].on) /\ SamplesSinceOff(notes[i]) >= GC_DEBOUNCE_SAMPLES

\* ================================================== the debounce timer
\* C11: the debounce timer counts rendered samples only.  While it is armed a
\* process() call of length L adds L to the counter and runs the sweep exactly
\* when the sum reaches GC_DEBOUNCE_SAMPLES, so that between calls an armed
\* counter is below the threshold; the sweep disarms the timer, and a disarmed
\* timer neither counts nor sweeps.  A note-off of a key in the set arms the
\* timer and resets the counter to 0; a note-on leaves both alone.
C11_DebounceTimer ==
  /\ [](pendingGCDebounce => samplesSinceLastGCCounter < GC_DEBOUNCE_SAMPLES)
  /\ [][RenderStep =>
          LET count == samplesSinceLastGCCounter + Len(outputL')
          IN  IF pendingGCDebounce
                THEN /\ samplesSinceLastGCCounter' = count
                     /\ IF count >= GC_DEBOUNCE_SAMPLES
                          THEN /\ ~pendingGCDebounce'
                               /\ \A i \in 1..Len(notes') : Survives(notes'[i])
                          ELSE /\ pendingGCDebounce'
                               /\ KeySeq(notes') = KeySeq(notes)
                ELSE /\ ~pendingGCDebounce'
                     /\ samplesSinceLastGCCounter' = samplesSinceLastGCCounter
                     /\ KeySeq(notes') = KeySeq(notes)]_vars
  /\ [][\A data \in NoteOffMessages :
          (data.note \in MapKeys(notes) /\ HandleNoteOff(data)) =>
            (pendingGCDebounce' /\ samplesSinceLastGCCounter' = 0)]_vars
  /\ [][\A data \in NoteOnMessages :
          ((~RenderStep) /\ HandleNoteOn(data)) =>
            UNCHANGED <<pendingGCDebounce, samplesSinceLastGCCounter>>]_vars

\* the debounced sweep has run although a note-on came after the note-off
\* that armed the timer: the held note is younger than the counter
C11_Witness ==
  /\ ~pendingGCDebounce /\ samplesSinceLastGCCounter >= GC_DEBOUNCE_SAMPLES
  /\ \E i \in 1..Len(notes) :
       /\ notes[i].on
       /\ notes[i].samplesSinceNoteOn > 0
       /\ notes[i].samplesSinceNoteOn < samplesSinceLastGCCounter

\* ====================================================== the render call
\* the sweep of the debounce ran in this process() call
SweepStep ==
  pendingGCDebounce
    /\ samplesSinceLastGCCounter + Len(outputL') >= GC_DEBOUNCE_SAMPLES

\* C12: a process() call with block length L copies the ring positions
\* playhead, playhead + 1, ..., playhead + L - 1 (modulo RING_BUFFER_SIZE), in
\* that order, to each output channel, then advances the playhead by L modulo
\* RING_BUFFER_SIZE and adds L to samplesSinceNoteOn of every note of the set
\* (a note the debounced sweep removes at the end of the call aside); the copy
\* does not modify the ring buffers, which change only by a generation.
C12_CopiesBlockInOrder ==
  [][RenderStep =>
       LET L == Len(outputL')
       IN  /\ L = Len(outputR')
           /\ \A i \in 1..L :
                /\ outputL'[i] = ringBufferLeft'[trueMod(playhead + i - 1, RING_BUFFER_SIZE)]
                /\ outputR'[i] = ringBufferRight'[trueMod(playhead + i - 1, RING_BUFFER_SIZE)]
           /\ playhead' = trueMod(playhead + L, RING_BUFFER_SIZE)
           /\ \A j \in 1..Len(notes') :
                \E i \in 1..Len(notes) : notes'[j] = Later(notes[i], L)
           /\ (~SweepStep) =>
                notes' = [i \in 1..Len(notes) |-> Later(notes[i], L)]
           /\ samplesSinceLastCompute < RECOMPUTE_AFTER =>
                UNCHANGED <<ringBufferLeft, ringBufferRight>>]_vars

\* a block of MaxBlock samples was copied across the end of the ring while a
\* note was sounding
C12_Witness ==
  /\ Len(outputL) = MaxBlock
  /\ playhead > 0 /\ playhead < MaxBlock
  /\ outputL[1] # outputL[MaxBlock]
  /\ \E i \in 1..Len(notes) : notes[i].samplesSinceNoteOn >= MaxBlock

\* C13: generateMoreSamples() runs at the start of a process() call exactly
\* when samplesSinceLastCompute >= RECOMPUTE_AFTER on entry, once, and before
\* the ring is read; it resets samplesSinceLastCompute to 0 (the call then
\* adds its block length).  The first process() call after construction
\* generates, since samplesSinceLastCompute starts at RECOMPUTE_AFTER.
C13_GeneratesWhenDue ==
  /\ samplesSinceLastCompute >= RECOMPUTE_AFTER
  /\ [][RenderStep =>
          LET L == Len(outputL')
          IN  IF samplesSinceLastCompute >= RECOMPUTE_AFTER
                THEN /\ ringBufferLeft' =
                          GeneratedRing(ringBufferLeft, generationHead, playhead)
                     /\ ringBufferRight' =
                          GeneratedRing(ringBufferRight, generationHead, playhead)
                     /\ generationHead' =
                          trueMod(generationHead + RECOMPUTE_AFTER, RING_BUFFER_SIZE)
                     /\ samplesSinceLastCompute' = L
                     /\ outputL' = Pull(ringBufferLeft', playhead, L)
                     /\ outputR' = Pull(ringBufferRight', playhead, L)
                ELSE /\ UNCHANGED <<ringBufferLeft, ringBufferRight, generationHead>>
                     /\ samplesSinceLastCompute' = samplesSinceLastCompute + L]_vars

\* the third generation has just run, after calls that did not generate
C13_Witness ==
  /\ JustGenerated
  /\ generationHead = trueMod(3 * RECOMPUTE_AFTER, RING_BUFFER_SIZE)
  /\ outputL[1] # <<>>

\* ======================================================== normalization
\* neither the amplitudes nor the sustain levels of def sum to 0
NonZeroSums(def) == TotalAmplitude(def)[1] # 0 /\ TotalSustain(def)[1] # 0

\* C14: when neither sum is 0, normalizeNXODef returns, for the same
\* harmonics, each amplitude divided by the sum of the amplitudes and each
\* sustain level divided by the sum of the sustain levels, so that the
\* returned amplitudes sum to 1 and the returned sustain levels sum to 1.
C14_SumsToOne ==
  (normalized # <<>> /\ NonZeroSums(nxoDef)) =>
    LET out == normalized[1]
    IN  /\ DOMAIN out = DOMAIN nxoDef
        /\ \A h \in DOMAIN out :
             /\ out[h].amplitude = Over(nxoDef[h].amplitude, TotalAmplitude(nxoDef))
             /\ out[h].sustain = Over(nxoDef[h].sustain, TotalSustain(nxoDef))
        /\ TotalAmplitude(out) = One
        /\ TotalSustain(out) = One

\* two harmonics whose sums differ from 1 and from each other were normalized
C14_Witness ==
  /\ normalized # <<>> /\ NonZeroSums(nxoDef)
  /\ Cardinality(DOMAIN nxoDef) = MaxHarmonic
  /\ TotalAmplitude(nxoDef) # One /\ TotalSustain(nxoDef) # One
  /\ TotalAmplitude(nxoDef) # TotalSustain(nxoDef)

\* C15 as stated: normalizeNXODef produces no definition when the amplitudes or
\* the sustain levels sum to 0, and never returns a definition with a
\* non-finite amplitude or sustain level.
C15_NeverNonFinite ==
  /\ (normalized # <<>>) => NonZeroSums(nxoDef)
  /\ \A k \in 1..Len(normalized) : \A h \in DOMAIN normalized[k] :
       IsFinite(normalized[k][h].amplitude) /\ IsFinite(normalized[k][h].sustain)

C17_DurationsFloored ==
  \A k \in 1..Len(normalized) : \A h \in DOMAIN normalized[k] :
    /\ normalized[k][h].attack > 0
    /\ normalized[k][h].decay > 0
    /\ normalized[k][h].release > 0

\* ============================================================ envelopes
\* C18 as stated: an interpolator returns valueBefore (0 for ADS, 1 for R) for
\* every time <= 0 and valueAfter (the sustain level for ADS, 0 for R) for
\* every time >= duration, and for 0 < time < duration it reads table indices
\* within 0 .. table.length - 1 only, whatever samplesPerTableEntry >= 1.
C18_InterpolatorEnds ==
  probe.op = "interp" =>
    LET p == adsr.definition
        time == probe.time
    IN  /\ time <= 0 =>
             probe.ads.value = Level(Zero) /\ probe.r.value = Level(One)
        /\ time >= p.attack + p.decay => probe.ads.value = Level(p.sustain)
        /\ time >= p.release => probe.r.value = Level(Zero)
        /\ (0 < time /\ time < p.attack + p.decay) =>
             probe.ads.reads # {} /\ probe.ads.reads \subseteq DOMAIN adsr.ads.table
        /\ (0 < time /\ time < p.release) =>
             probe.r.reads # {} /\ probe.r.reads \subseteq DOMAIN adsr.r.table

\* time is k / sampleRate for an integer k >= 0
OnSample(time) == time >= 0 /\ (time * sampleRate) % TicksPerSecond = 0

\* C19 as stated: with samplesPerTableEntry = 1, at every time k / sampleRate
\* with 0 <= k / sampleRate < duration (k = 0 included) the interpolator
\* returns what the direct evaluation (evaluateTrueADS, evaluateTrueR) returns
\* for that time.
C19_TableRoundTrip ==
  (probe.op = "interp" /\ adsr.samplesPerTableEntry = 1 /\ OnSample(probe.time)) =>
    LET p == adsr.definition
        time == probe.time
    IN  /\ time < p.attack + p.decay => probe.ads.value = evaluateTrueADS(p, time)
        /\ time < p.release => probe.r.value = evaluateTrueR(p, time)

\* C20 as stated: for every total note-on time T >= 0, whileNoteOff(T, 0) is
\* whileNoteOn(T): the release starts at the level the note was held at.
C20_ReleaseStartsAtHeldLevel ==
  (probe.op = "compute" /\ probe.timeSinceNoteOff = 0) => probe.off = probe.on

\* ==================================================== the output samples
\* C21 as stated: a sample that is not finite is replaced by 0 before it is
\* stored, so that no ring position and no output entry ever holds one.
C21_NoNonFiniteSample ==
  /\ \A idx \in RingIndices :
       ringBufferLeft[idx] # NaN /\ ringBufferRight[idx] # NaN
  /\ \A i \in 1..Len(outputL) : outputL[i] # NaN
  /\ \A i \in 1..Len(outputR) : outputR[i] # NaN

\* C22 as stated: every sample a process() call hands to the host is the
\* conditioned (soft-clipped) version of the ring-buffer sample it read, never
\* the raw ring-buffer value.
C22_OutputConditioned ==
  [][RenderStep =>
       \A i \in 1..Len(outputL') :
         LET idx == trueMod(playhead + i - 1, RING_BUFFER_SIZE)
         IN  /\ outputL'[i] = softClip(ringBufferLeft'[idx])
             /\ outputR'[i] = softClip(ringBufferRight'[idx])]_vars

\* C23 as stated: once a stop message is handled every note's
\* samplesSinceNoteOn and the sample counters of the scheduler and of the
\* debounce are 0.
C23_StopClearsCounters ==
  [][\A data \in TransportMessages :
       (data.type = "stop" /\ HandleOther(data)) =>
         /\ \A i \in 1..Len(notes') : notes'[i].samplesSinceNoteOn = 0
         /\ samplesSinceLastCompute' = 0
         /\ samplesSinceLastGCCounter' = 0]_vars

\* C24: a process() call whose output does not have 2 channels raises
\* "Expected 2 output channels." before anything else happens: the step that
\* raises it generates nothing and leaves the ring buffers, playhead,
\* generationHead, samplesSinceLastCompute, the notes and their counters, the
\* debounce state and the output of the previous call as they were.
C24_ChannelMismatchChangesNothing ==
  [][thrown' = ExpectedTwoChannels =>
       (UNCHANGED engine /\ UNCHANGED <<outputL, outputR>>)]_vars

\* the error was raised by a call at which a generation was due, with a
\* released note in the set and the debounce running
C24_Witness ==
  /\ thrown = ExpectedTwoChannels
  /\ samplesSinceLastCompute >= RECOMPUTE_AFTER
  /\ pendingGCDebounce /\ samplesSinceLastGCCounter > 0
  /\ \E i \in 1..Len(notes) : ~notes[i].on

\* ===================================================== the polyphony bound
\* C25: in every reachable state the number of active notes, held and
\* released together, is at most MAX_VOICES.
C25_AtMostMaxVoices == Len(notes) <= MAX_VOICES

\* the set is full, of a released note and of a note inserted since the last
\* rendering
C25_Witness ==
  /\ Len(notes) = MAX_VOICES
  /\ ~notes[1].on /\ notes[1].samplesSinceNoteOn > 0
  /\ notes[MAX_VOICES].on /\ notes[MAX_VOICES].samplesSinceNoteOn = 0

\* C26: on a note-on the sweep comes first: when fewer than MAX_VOICES notes
\* are left once the expired released notes are removed, no note that is held
\* or within its expiration time is evicted (its key is still in the set, and
\* its record is untouched unless the note-on is for its own key).
C26_SweepBeforeEviction ==
  [][(~RenderStep /\ Len(SelectSeq(notes, Survives)) < MAX_VOICES) =>
       \A data \in NoteOnMessages :
         HandleNoteOn(data) =>
           \A i \in 1..Len(notes) :
             Survives(notes[i]) =>
               /\ notes[i].id \in MapKeys(notes')
               /\ notes[i].id # data.note => notes[i] \in Range(notes')]_vars

\* a note that was sounding before the last note-on shares the full set with
\* the note inserted by it, every note is held, and the last note-off lies
\* further back than the expiration time with the sweep of process() still
\* pending: the note released then was removed by a note-on
C26_Witness ==
  /\ Len(notes) = MAX_VOICES
  /\ \A i \in 1..Len(notes) : notes[i].on
  /\ notes[1].samplesSinceNoteOn > 0
  /\ notes[MAX_VOICES].samplesSinceNoteOn = 0
  /\ pendingGCDebounce
  /\ SamplesToTime(samplesSinceLastGCCounter) > releaseNoteExpirationTime

\* ========================================================== the generation
\* a process() call that finds a generation due
GenerationStep == RenderStep /\ samplesSinceLastCompute >= RECOMPUTE_AFTER

\* C27: generateMoreSamples() writes the BUFFER_SIZE consecutive ring
\* positions from generationHead on (modulo the ring size) with the samples
\* of the new block, leaves every other position as it was and advances
\* generationHead by RECOMPUTE_AFTER modulo the ring size; the playhead and the
\* notes change in that call only as the copy and the counters of process()
\* change them: the playhead by the output length, each note's
\* samplesSinceNoteOn by the output length, no note added or altered otherwise.
C27_GenerationWritesOneBlock ==
  [][GenerationStep =>
       LET outputLen == Len(outputL')
       IN  /\ \A i \in 0..(BUFFER_SIZE - 1) :
                LET idx == trueMod(generationHead + i, RING_BUFFER_SIZE)
                IN  /\ ringBufferLeft'[idx] \in {<<trueMod(playhead + i, RING_BUFFER_SIZE)>>, NaN}
                    /\ ringBufferRight'[idx] = ringBufferLeft'[idx]
           /\ \A idx \in RingIndices :
                trueMod(idx - generationHead, RING_BUFFER_SIZE) >= BUFFER_SIZE =>
                  /\ ringBufferLeft'[idx] = ringBufferLeft[idx]
                  /\ ringBufferRight'[idx] = ringBufferRight[idx]
           /\ generationHead' = trueMod(generationHead + RECOMPUTE_AFTER, RING_BUFFER_SIZE)
           /\ playhead' = trueMod(playhead + outputLen, RING_BUFFER_SIZE)
           /\ Range(notes') \subseteq {Later(n, outputLen) : n \in Range(notes)}
           /\ (~pendingGCDebounce) => Len(notes') = Len(notes)]_vars

\* a generation has just run with a note in the set, its block wrapped around
\* the end of the ring, and a position outside the block still holds a sample
\* of an earlier block
C27_Witness ==
  /\ JustGenerated
  /\ notes # <<>>
  /\ LastBlockStart + BUFFER_SIZE > RING_BUFFER_SIZE
  /\ \E idx \in RingIndices :
       ~InBlock(LastBlockStart, idx) /\ ringBufferLeft[idx] # <<>>

\* C28 as stated: whenever generateMoreSamples() is called, generationHead
\* equals playhead, whatever the block lengths of the host have been.
C28_GeneratesAtPlayhead ==
  [][GenerationStep => generationHead = playhead]_vars

\* C29: the left and the right ring buffer are equal at every index in every
\* reachable state, and the two output channels of every process() call are
\* equal.
C29_MonoInStereo ==
  /\ \A idx \in RingIndices : ringBufferLeft[idx] = ringBufferRight[idx]
  /\ Len(outputL) = Len(outputR)
  /\ \A i \in 1..Len(outputL) : outputL[i] = outputR[i]

\* every ring position has been written, a note is in the set and the last
\* call handed out a block of the largest length
C29_Witness ==
  /\ \A idx \in RingIndices : ringBufferRight[idx] # <<>>
  /\ notes # <<>>
  /\ Len(outputR) = MaxBlock

\* C30: a record enters the set with samplesSinceNoteOn = 0 on a note-on, and
\* from then on every process() call adds its output length to it and nothing
\* else changes it: not a note-off, not the removal of other notes, not a
\* generation. The counter is thus the number of samples handed to the host
\* since the note-on that made the record, and never decreases.
C30_CounterIsSamplesSinceNoteOn ==
  [][\A j \in 1..Len(notes') :
       \/ \E i \in 1..Len(notes) :
            /\ notes[i].id = notes'[j].id
            /\ notes'[j].samplesSinceNoteOn =
                 notes[i].samplesSinceNoteOn + (IF RenderStep THEN Len(outputL') ELSE 0)
       \/ /\ ~RenderStep
          /\ notes'[j].on /\ notes'[j].samplesSinceNoteOn = 0
          /\ \A k \in 1..Len(notes') : k # j => notes'[k] \in Range(notes)]_vars

\* a released note whose counter ran on after its note-off shares the set with
\* a younger held note whose counter has advanced as well
C30_Witness ==
  /\ Len(notes) = MAX_VOICES
  /\ ~notes[1].on
  /\ SamplesToTime(notes[1].samplesSinceNoteOn) > notes[1].totalTimeNoteWasOn
  /\ notes[MAX_VOICES].on
  /\ notes[MAX_VOICES].samplesSinceNoteOn > 0
  /\ notes[MAX_VOICES].samplesSinceNoteOn < notes[1].samplesSinceNoteOn

\* ================================================== the output conditioner
\* C37 as stated: StereoAntiPopFilter.process never stores a sample that is
\* not finite in its input or output history and never returns one, whatever
\* it is handed; so after an input that is not finite the calls with finite
\* inputs return finite outputs.
C37_FilterRejectsNonFinite ==
  /\ \A i \in 0..(bufferSize - 1) :
       /\ IsFiniteSample(antiPopFilter.inputL[i])
       /\ IsFiniteSample(antiPopFilter.inputR[i])
       /\ IsFiniteSample(antiPopFilter.outputL[i])
       /\ IsFiniteSample(antiPopFilter.outputR[i])
  /\ \A k \in 1..Len(antiPopFilter.returned) :
       IsFiniteSample(antiPopFilter.returned[k])

\* ============================================================ the Recorder
\* C38: sizeRef is always the sum of the sizes of the chunks in chunksRef and
\* never exceeds memoryLimitBytes; the chunks change only by a reset to the
\* empty list or by one chunk appended, and a recording MediaRecorder that is
\* handed a chunk it does not keep (one of positive size) is stopped.
C38_ChunksWithinLimit ==
  /\ [](/\ recorder.size = TotalSize(recorder.chunks)
        /\ recorder.size <= recorder.memoryLimitBytes)
  /\ [][/\ recorder.chunks' # recorder.chunks =>
             \/ recorder.chunks' = <<>>
             \/ /\ Len(recorder.chunks') = Len(recorder.chunks) + 1
                /\ SubSeq(recorder.chunks', 1, Len(recorder.chunks)) = recorder.chunks
        /\ (recorder.state = "recording" /\ recorder.chunks' = recorder.chunks
              /\ recorder' # recorder) => recorder.state' = "inactive"]_vars

\* the chunks kept fill the limit exactly, and the MediaRecorder has been
\* stopped while the component still shows the recording
C38_Witness ==
  /\ Len(recorder.chunks) >= 2
  /\ recorder.size = recorder.memoryLimitBytes
  /\ recorder.state = "inactive"
  /\ recorder.recording

\* ===================================================== the debounced sweep
\* C32: right after a process() call in which the debounced sweep fired the
\* set holds no released note: only held notes are left.
C32_SweepLeavesHeldNotesOnly ==
  [][(RenderStep /\ SweepStep) =>
       \A j \in 1..Len(notes') : notes'[j].on]_vars

\* the sweep has fired in the call that brought the counter to the debounce
\* length, and a held note that was sounding all the while is what is left
C32_Witness ==
  /\ ~pendingGCDebounce
  /\ samplesSinceLastGCCounter >= GC_DEBOUNCE_SAMPLES
  /\ Len(notes) = 1
  /\ notes[1].on /\ notes[1].samplesSinceNoteOn >= GC_DEBOUNCE_SAMPLES

\* ======================================================== note messages
\* C35: a step that is not a process() call, that is the handling of a
\* noteOn or noteOff message, leaves the ring buffers, playhead,
\* generationHead, samplesSinceLastCompute and the last output as they were;
\* and a process() call at which no generation is due hands out the ring
\* buffer samples as they were before it, leaving the ring buffers alone.
C35_NoteMessagesLeaveSamples ==
  [][/\ (~RenderStep) =>
          UNCHANGED <<ringBufferLeft, ringBufferRight, playhead, generationHead,
                      samplesSinceLastCompute, outputL, outputR>>
     /\ (RenderStep /\ ~GenerationStep) =>
          /\ UNCHANGED <<ringBufferLeft, ringBufferRight, generationHead>>
          /\ \A i \in 1..Len(outputL') :
               LET idx == trueMod(playhead + i - 1, RING_BUFFER_SIZE)
               IN  /\ outputL'[i] = ringBufferLeft[idx]
                   /\ outputR'[i] = ringBufferRight[idx]]_vars

\* a note was inserted in the middle of a generation cycle, after samples of
\* the current block were handed out, next to a released note
C35_Witness ==
  /\ samplesSinceLastCompute > 0 /\ samplesSinceLastCompute < RECOMPUTE_AFTER
  /\ outputL # <<>>
  /\ Len(notes) = MAX_VOICES
  /\ ~notes[1].on
  /\ notes[MAX_VOICES].on /\ notes[MAX_VOICES].samplesSinceNoteOn = 0

\* ============================================================= the heads
\* C39: in every state playhead and generationHead are in
\* 0 .. RING_BUFFER_SIZE - 1, generationHead is a multiple of
\* RECOMPUTE_AFTER, and samplesSinceLastCompute is at least 0 and, with host
\* blocks of at most MaxBlock samples, below RECOMPUTE_AFTER + MaxBlock.
C39_HeadsInRange ==
  /\ playhead \in 0..(RING_BUFFER_SIZE - 1)
  /\ generationHead \in 0..(RING_BUFFER_SIZE - 1)
  /\ generationHead % RECOMPUTE_AFTER = 0
  /\ samplesSinceLastCompute >= 0
  /\ samplesSinceLastCompute < RECOMPUTE_AFTER + MaxBlock

\* generationHead has wrapped to 0 while the counter is at its largest
C39_Witness ==
  /\ generationHead = 0
  /\ playhead > RECOMPUTE_AFTER
  /\ samplesSinceLastCompute = RECOMPUTE_AFTER + MaxBlock - 1

\* ========================================================= removed notes
\* the record n, as the sweep of this step found it, was deleted by it: it
\* was released and past the expiration time, and no released record of its
\* key is left
RemovedBySweep(n) ==
  /\ Collectable(n)
  /\ ~\E j \in 1..Len(notes') : notes'[j].id = n.id /\ ~notes'[j].on

\* C31 as stated: a note the sweep removes has an envelope of exactly 0 at
\* the time of its removal and at every later sample time, so that it would
\* add 0 to every sample generated from then on.
C31_RemovedNotesAreSilent ==
  [][\A i \in 1..Len(notes) :
       LET n == IF RenderStep THEN Later(notes[i], Len(outputL')) ELSE notes[i]
       IN  RemovedBySweep(n) =>
             \A d \in 0..BUFFER_SIZE : EnvelopeAt(Later(n, d), 0) = Level(Zero)]_vars

\* ======================================================== the instrument
\* C36: the processors and the harmonic list are taken from one and the same
\* definition: in every state, and so at every generation, each harmonic of
\* the list has a processor, built from that harmonic's entry of the
\* definition; no message, a compile message included, changes either.
C36_ProcessorsMatchHarmonics ==
  /\ \A h \in harmonics :
       /\ h \in DOMAIN processors
       /\ processors[h].definition = nxoDef[h]
  /\ DOMAIN processors \subseteq harmonics

\* a generation has just run for a released note of the instrument whose
\* definition has no sustain level
C36_Witness ==
  /\ JustGenerated
  /\ nxoDef = zeroSustainNXODef
  /\ Len(notes) = 1 /\ ~notes[1].on
  /\ thrown = ""

\* ============================================================ the client
\* C34 as stated: a client that sends a note-off only for a key it holds
\* down, with at most MAX_VOICES keys down at a time, never gets the error
\* "No note found for noteOff".
C34_NoErrorForHeldKeys == thrown # NoNoteFound

\* no further note-on can come
Quiet == Len(noteOnLog) = MaxLog

\* the samples still to be rendered, in blocks of Quantum, before the
\* pending debounce has elapsed
SamplesToSweep ==
  Quantum * CeilDiv(GC_DEBOUNCE_SAMPLES - samplesSinceLastGCCounter, Quantum)

\* the notes can be rendered until then without a counter passing MaxSamples
Room ==
  \A i \in 1..Len(notes) :
    notes[i].samplesSinceNoteOn + SamplesToSweep <= MaxSamples

\* the sweep of process() has fired and has left no released note
Swept == (~pendingGCDebounce) /\ \A i \in 1..Len(notes) : notes[i].on

\* C33: under a host that keeps calling process(), once no further note-on
\* comes, a pending debounce leads to the sweep having fired (the flag is
\* cleared and no released note is left) unless another key is released in
\* between, which restarts it; the keys down are finitely many, so that every
\* released note is removed in the end.
C33_PendingSweepFires ==
  \A down \in SUBSET SoloKeys :
    (Quiet /\ pendingGCDebounce /\ Room /\ keysDown = down)
      ~> (Swept \/ keysDown # down)

\* every key is up again after the last note-on, the sweep has fired at the
\* end of the debounce and the set is empty
C33_Witness ==
  /\ Quiet
  /\ keysDown = {}
  /\ notes = <<>>
  /\ ~pendingGCDebounce
  /\ samplesSinceLastGCCounter >= GC_DEBOUNCE_SAMPLES

====
